---- MODULE Spec2Model ----
(***************************************************************************)
(* A model of main.py: the design store (save_design, get_design,          *)
(* export_image), the template preview generator                           *)
(* (create_template_previews) and the index page's template list.          *)
(*                                                                         *)
(* Text is a sequence of one-character strings, file content a sequence of *)
(* bytes (0..255).  Directories are functions from file name to content.   *)
(***************************************************************************)
EXTENDS Integers, Sequences, FiniteSets, TLC

VARIABLES
    designs_dir,      \* DESIGNS_DIR: file name (text) -> bytes
    reqs,             \* HTTP requests received so far, with their handler state
    loop,             \* index in reqs of the handler the event loop runs, 0 = idle
    clock,            \* number of handlers that have returned
    templates_images, \* TEMPLATE_IMAGES_DIR: the directory listing, in os order
    previews_dir,     \* PREVIEWS_DIR: preview file name -> [src, size]
    image_files,      \* create_template_previews: the enumerated list
    pos,              \* create_template_previews: index of the next image
    ppc,              \* create_template_previews: "start", "loop", "done", "crashed"
    template_list,    \* index: [rendered, templates], the list handed to the page
    img_size,         \* one image being resized: its <<width, height>>
    preview           \* the result of resizing it: [state, size]

vars == <<designs_dir, reqs, loop, clock, templates_images, previews_dir,
          image_files, pos, ppc, template_list, img_size, preview>>

storeVars == <<designs_dir, reqs, loop, clock>>
templateVars == <<templates_images, previews_dir, image_files, pos, ppc, template_list>>
resizeVars == <<img_size, preview>>

(***************************************************************************)
(* Bounds of the model.                                                    *)
(***************************************************************************)
MaxRequests == 2
MaxSaves == 3
MaxBytesLen == 3
MaxWidth == 8
MaxHeight == 22

(***************************************************************************)
(* Characters and bytes.  Printable lists the ASCII characters 32..126 in   *)
(* code order (the entry of code 96 is spelled out: no text here uses it). *)
(***************************************************************************)
Printable ==
    <<" ", "!", "\"", "#", "$", "%", "&", "'", "(", ")", "*", "+", ",", "-", ".", "/",
      "0", "1", "2", "3", "4", "5", "6", "7", "8", "9", ":", ";", "<", "=", ">", "?",
      "@", "A", "B", "C", "D", "E", "F", "G", "H", "I", "J", "K", "L", "M", "N", "O",
      "P", "Q", "R", "S", "T", "U", "V", "W", "X", "Y", "Z", "[", "\\", "]", "^", "_",
      "GRAVE", "a", "b", "c", "d", "e", "f", "g", "h", "i", "j", "k", "l", "m", "n", "o",
      "p", "q", "r", "s", "t", "u", "v", "w", "x", "y", "z", "{", "|", "}", "~">>

OrdTable ==
    [c \in {Printable[i] : i \in 1..Len(Printable)} \cup {"\n"} |->
        IF c = "\n" THEN 10
        ELSE (CHOOSE i \in 1..Len(Printable) : Printable[i] = c) + 31]

Ord(c) == OrdTable[c]

\* open(path, "w", encoding="utf-8"): the text is ASCII (json.dump escapes the rest)
Utf8Encode(text) == [i \in 1..Len(text) |-> Ord(text[i])]

StartsWith(s, prefix) ==
    /\ Len(s) >= Len(prefix)
    /\ SubSeq(s, 1, Len(prefix)) = prefix

EndsWith(s, suffix) ==
    /\ Len(s) >= Len(suffix)
    /\ SubSeq(s, Len(s) - Len(suffix) + 1, Len(s)) = suffix

\* position of the first occurrence of c in s, 0 when there is none
Find(s, c) ==
    IF \E i \in 1..Len(s) : s[i] = c
    THEN CHOOSE i \in 1..Len(s) : s[i] = c /\ \A j \in 1..(i - 1) : s[j] # c
    ELSE 0

\* position of the last occurrence of c in s, 0 when there is none
RFind(s, c) ==
    IF \E i \in 1..Len(s) : s[i] = c
    THEN CHOOSE i \in 1..Len(s) : s[i] = c /\ \A j \in (i + 1)..Len(s) : s[j] # c
    ELSE 0

Chr(b) == IF b = 10 THEN "\n" ELSE Printable[b - 31]

IsTextByte(b) == b = 10 \/ (b >= 32 /\ b <= 126)

(***************************************************************************)
(* base64.  b64encode is the standard encoding the client applies;         *)
(* b64decode is base64.b64decode(s) with validate=False, which is          *)
(* binascii.a2b_base64: characters outside the alphabet are skipped, a     *)
(* complete pad sequence ends the input, and an incomplete quad is an      *)
(* error.                                                                  *)
(***************************************************************************)
B64Alphabet ==
    <<"A", "B", "C", "D", "E", "F", "G", "H", "I", "J", "K", "L", "M", "N", "O", "P",
      "Q", "R", "S", "T", "U", "V", "W", "X", "Y", "Z", "a", "b", "c", "d", "e", "f",
      "g", "h", "i", "j", "k", "l", "m", "n", "o", "p", "q", "r", "s", "t", "u", "v",
      "w", "x", "y", "z", "0", "1", "2", "3", "4", "5", "6", "7", "8", "9", "+", "/">>

B64Char(v) == B64Alphabet[v + 1]

\* table_a2b_base64: the 6-bit value of c, 64 for a character outside the alphabet
B64Value(c) ==
    IF \E i \in 1..64 : B64Alphabet[i] = c
    THEN (CHOOSE i \in 1..64 : B64Alphabet[i] = c) - 1
    ELSE 64

RECURSIVE b64encode(_)
b64encode(data) ==
    IF Len(data) = 0 THEN <<>>
    ELSE IF Len(data) = 1 THEN
        <<B64Char(data[1] \div 4), B64Char((data[1] % 4) * 16), "=", "=">>
    ELSE IF Len(data) = 2 THEN
        <<B64Char(data[1] \div 4),
          B64Char((data[1] % 4) * 16 + data[2] \div 16),
          B64Char((data[2] % 16) * 4), "=">>
    ELSE
        <<B64Char(data[1] \div 4),
          B64Char((data[1] % 4) * 16 + data[2] \div 16),
          B64Char((data[2] % 16) * 4 + data[3] \div 64),
          B64Char(data[3] % 64)>> \o b64encode(SubSeq(data, 4, Len(data)))

\* One pass of a2b_base64 over s from position i; st = [quad, left, pads, out].
RECURSIVE A2bBase64(_, _, _)
A2bBase64(s, i, st) ==
    IF i > Len(s) THEN
        [ok |-> st.quad = 0, data |-> IF st.quad = 0 THEN st.out ELSE <<>>]
    ELSE IF s[i] = "=" THEN
        IF st.quad >= 2 /\ st.quad + st.pads + 1 >= 4
        THEN [ok |-> TRUE, data |-> st.out]
        ELSE A2bBase64(s, i + 1,
                 IF st.quad >= 2 THEN [st EXCEPT !.pads = st.pads + 1] ELSE st)
    ELSE IF B64Value(s[i]) >= 64 THEN A2bBase64(s, i + 1, st)
    ELSE LET ch == B64Value(s[i]) IN
        A2bBase64(s, i + 1,
            CASE st.quad = 0 -> [quad |-> 1, left |-> ch, pads |-> 0, out |-> st.out]
              [] st.quad = 1 -> [quad |-> 2, left |-> ch % 16, pads |-> 0,
                                 out |-> Append(st.out, st.left * 4 + ch \div 16)]
              [] st.quad = 2 -> [quad |-> 3, left |-> ch % 4, pads |-> 0,
                                 out |-> Append(st.out, st.left * 16 + ch \div 4)]
              [] OTHER       -> [quad |-> 0, left |-> 0, pads |-> 0,
                                 out |-> Append(st.out, st.left * 64 + ch)])

\* [ok, data]: ok = FALSE models binascii.Error
b64decode(s) == A2bBase64(s, 1, [quad |-> 0, left |-> 0, pads |-> 0, out |-> <<>>])

(***************************************************************************)
(* JSON values: [k, s, m] with k the kind ("obj", "str", "num", "lit"),    *)
(* s the text of a string, number or literal, and m the members of an      *)
(* object in insertion order, each <<key, value>>.                         *)
(***************************************************************************)
JStr(text) == [k |-> "str", s |-> text, m |-> <<>>]
JNum(digits) == [k |-> "num", s |-> digits, m |-> <<>>]
JLit(word) == [k |-> "lit", s |-> word, m |-> <<>>]
JObj(members) == [k |-> "obj", s |-> <<>>, m |-> members]

HasKey(obj, key) == obj.k = "obj" /\ \E i \in 1..Len(obj.m) : obj.m[i][1] = key

\* obj[key]
Field(obj, key) == obj.m[CHOOSE i \in 1..Len(obj.m) : obj.m[i][1] = key][2]

\* d[key] = value on a Python dict: a known key keeps its place
ObjSet(members, key, value) ==
    IF \E i \in 1..Len(members) : members[i][1] = key
    THEN [i \in 1..Len(members) |->
             IF members[i][1] = key THEN <<key, value>> ELSE members[i]]
    ELSE Append(members, <<key, value>>)

\* json.encoder: py_encode_basestring_ascii, for the characters of the model
RECURSIVE EscapeString(_)
EscapeString(text) ==
    IF Len(text) = 0 THEN <<>>
    ELSE (CASE text[1] = "\"" -> <<"\\", "\"">>
            [] text[1] = "\\" -> <<"\\", "\\">>
            [] text[1] = "\n" -> <<"\\", "n">>
            [] OTHER          -> <<text[1]>>) \o EscapeString(Tail(text))

NewlineIndent(level) == <<"\n">> \o [i \in 1..(2 * level) |-> " "]

\* json.dumps(value, indent=2), value at nesting depth level
RECURSIVE JsonEncode(_, _)
RECURSIVE JsonEncodeMembers(_, _, _)
JsonEncode(value, level) ==
    CASE value.k = "str" -> <<"\"">> \o EscapeString(value.s) \o <<"\"">>
      [] value.k = "obj" ->
            IF Len(value.m) = 0 THEN <<"{", "}">>
            ELSE <<"{">> \o JsonEncodeMembers(value.m, 1, level + 1)
                         \o NewlineIndent(level) \o <<"}">>
      [] OTHER -> value.s

JsonEncodeMembers(members, i, level) ==
    IF i > Len(members) THEN <<>>
    ELSE (IF i > 1 THEN <<",">> ELSE <<>>)
         \o NewlineIndent(level)
         \o <<"\"">> \o EscapeString(members[i][1]) \o <<"\"", ":", " ">>
         \o JsonEncode(members[i][2], level)
         \o JsonEncodeMembers(members, i + 1, level)

JsonDumps(value) == JsonEncode(value, 0)

(***************************************************************************)
(* json.loads over the bytes of a file.  The decoder reads objects,        *)
(* strings (escapes \", \\, \/ and \n), integers and the literals true,    *)
(* false and null; a result is [ok, v, i] with i the position after the    *)
(* value.  ok = FALSE models JSONDecodeError / UnicodeDecodeError.         *)
(***************************************************************************)
JFail == [ok |-> FALSE, v |-> JLit(<<>>), i |-> 0]

IsWs(b) == b \in {32, 9, 10, 13}
IsDigit(b) == b >= 48 /\ b <= 57

RECURSIVE SkipWs(_, _)
SkipWs(b, i) == IF i <= Len(b) /\ IsWs(b[i]) THEN SkipWs(b, i + 1) ELSE i

\* the body of a string from position i (after the opening quote)
RECURSIVE ScanString(_, _, _)
ScanString(b, i, acc) ==
    IF i > Len(b) THEN JFail
    ELSE IF b[i] = 34 THEN [ok |-> TRUE, v |-> JStr(acc), i |-> i + 1]
    ELSE IF b[i] = 92 THEN
        IF i + 1 > Len(b) THEN JFail
        ELSE CASE b[i + 1] = 34  -> ScanString(b, i + 2, Append(acc, "\""))
               [] b[i + 1] = 92  -> ScanString(b, i + 2, Append(acc, "\\"))
               [] b[i + 1] = 47  -> ScanString(b, i + 2, Append(acc, "/"))
               [] b[i + 1] = 110 -> ScanString(b, i + 2, Append(acc, "\n"))
               [] OTHER          -> JFail
    ELSE IF b[i] < 32 \/ b[i] > 126 THEN JFail
    ELSE ScanString(b, i + 1, Append(acc, Chr(b[i])))

RECURSIVE ScanDigits(_, _)
ScanDigits(b, i) == IF i <= Len(b) /\ IsDigit(b[i]) THEN ScanDigits(b, i + 1) ELSE i

\* -?(0|[1-9][0-9]*), not followed by a fraction or an exponent
ScanNumber(b, i) ==
    LET d == IF b[i] = 45 THEN i + 1 ELSE i
        e == IF d <= Len(b) /\ b[d] = 48 THEN d + 1 ELSE ScanDigits(b, d)
        digits == [j \in 1..(e - d) |-> Chr(b[d + j - 1])]
    IN  IF e = d THEN JFail
        ELSE IF e <= Len(b) /\ b[e] \in {46, 101, 69} THEN JFail
        ELSE [ok |-> TRUE,
              v |-> JNum(IF b[i] = 45 /\ digits # <<"0">> THEN <<"-">> \o digits
                         ELSE digits),
              i |-> e]

ScanLiteral(b, i, word) ==
    IF i + Len(word) - 1 <= Len(b) /\ SubSeq(b, i, i + Len(word) - 1) = Utf8Encode(word)
    THEN [ok |-> TRUE, v |-> JLit(word), i |-> i + Len(word)]
    ELSE JFail

RECURSIVE ScanValue(_, _)
RECURSIVE ScanMembers(_, _, _)
ScanValue(b, i) ==
    IF i > Len(b) THEN JFail
    ELSE CASE b[i] = 34  -> ScanString(b, i + 1, <<>>)
           [] b[i] = 123 ->
                LET j == SkipWs(b, i + 1) IN
                IF j <= Len(b) /\ b[j] = 125
                THEN [ok |-> TRUE, v |-> JObj(<<>>), i |-> j + 1]
                ELSE ScanMembers(b, j, <<>>)
           [] b[i] = 45 \/ IsDigit(b[i]) -> ScanNumber(b, i)
           [] b[i] = 116 -> ScanLiteral(b, i, <<"t", "r", "u", "e">>)
           [] b[i] = 102 -> ScanLiteral(b, i, <<"f", "a", "l", "s", "e">>)
           [] b[i] = 110 -> ScanLiteral(b, i, <<"n", "u", "l", "l">>)
           [] OTHER      -> JFail

\* "key": value pairs from position i, up to the closing brace
ScanMembers(b, i, acc) ==
    IF i > Len(b) \/ b[i] # 34 THEN JFail
    ELSE LET key == ScanString(b, i + 1, <<>>) IN
         IF ~key.ok THEN JFail
         ELSE LET c == SkipWs(b, key.i) IN
              IF c > Len(b) \/ b[c] # 58 THEN JFail
              ELSE LET val == ScanValue(b, SkipWs(b, c + 1)) IN
                   IF ~val.ok THEN JFail
                   ELSE LET n == SkipWs(b, val.i)
                            members == ObjSet(acc, key.v.s, val.v)
                        IN  IF n > Len(b) THEN JFail
                            ELSE IF b[n] = 125
                            THEN [ok |-> TRUE, v |-> JObj(members), i |-> n + 1]
                            ELSE IF b[n] = 44
                            THEN ScanMembers(b, SkipWs(b, n + 1), members)
                            ELSE JFail

\* json.load(f) on a file holding bytes b: [ok, v]
JsonLoads(b) ==
    IF \E i \in 1..Len(b) : b[i] > 127 THEN [ok |-> FALSE, v |-> JFail.v]
    ELSE LET r == ScanValue(b, SkipWs(b, 1)) IN
         IF r.ok /\ SkipWs(b, r.i) > Len(b)
         THEN [ok |-> TRUE, v |-> r.v]
         ELSE [ok |-> FALSE, v |-> JFail.v]

(***************************************************************************)
(* Optional strings (str = None, Form(None)) and Python's "x or default".  *)
(***************************************************************************)
None == [some |-> FALSE, v |-> <<>>]
Some(text) == [some |-> TRUE, v |-> text]

\* payload.design_id or ..., filename or ...: None and "" are both falsy
PyOr(opt, default) == IF opt.some /\ opt.v # <<>> THEN opt.v ELSE default

(***************************************************************************)
(* Files of a directory.  open(path, "w") creates or truncates; the data   *)
(* written through the handle stays in its buffer until close (the         *)
(* documents are smaller than the buffer), which writes it at the handle's *)
(* offset.                                                                 *)
(***************************************************************************)
\* a file opened without truncation ("r+", or os.open without O_TRUNC)
OpenKeep(dir, path) ==
    [p \in DOMAIN dir \cup {path} |-> IF p \in DOMAIN dir THEN dir[p] ELSE <<>>]

\* open(path, "w") / open(path, "wb")
OpenW(dir, path) ==
    [p \in DOMAIN dir \cup {path} |-> IF p = path THEN <<>> ELSE dir[p]]

\* the content after writing buf at byte offset off
WriteAt(content, off, buf) ==
    LET n == IF Len(content) > off + Len(buf) THEN Len(content) ELSE off + Len(buf)
    IN  [i \in 1..n |-> IF i > off /\ i <= off + Len(buf) THEN buf[i - off]
                        ELSE content[i]]

\* leaving the with block: the buffer is written at offset 0 and the file closed
Close(dir, path, buf) == [dir EXCEPT ![path] = WriteAt(dir[path], 0, buf)]

(***************************************************************************)
(* uuid.uuid4().hex: 32 hexadecimal digits, any value.                     *)
(***************************************************************************)
UuidHex ==
    { [i \in 1..32 |-> "0"],
      [i \in 1..32 |-> IF i % 2 = 1 THEN "a" ELSE "7"] }

\* f"design_{uuid.uuid4().hex[:12]}"
GeneratedDesignId(hex) == <<"d", "e", "s", "i", "g", "n", "_">> \o SubSeq(hex, 1, 12)

\* f"export_{uuid.uuid4().hex[:8]}.png"
GeneratedExportName(hex) ==
    <<"e", "x", "p", "o", "r", "t", "_">> \o SubSeq(hex, 1, 8) \o <<".", "p", "n", "g">>

\* os.path.join(DESIGNS_DIR, f"{design_id}.json"), relative to DESIGNS_DIR
DesignPath(design_id) == design_id \o <<".", "j", "s", "o", "n">>

K_design_id == <<"d", "e", "s", "i", "g", "n", "_", "i", "d">>
K_template_id == <<"t", "e", "m", "p", "l", "a", "t", "e", "_", "i", "d">>
K_design == <<"d", "e", "s", "i", "g", "n">>
K_status == <<"s", "t", "a", "t", "u", "s">>
K_file == <<"f", "i", "l", "e">>
K_detail == <<"d", "e", "t", "a", "i", "l">>

\* the document with the design under the payload's own field name
DesignDocumentAsPayload(design_id, template_id, design_json) ==
    JObj(<< <<K_design_id, JStr(design_id)>>,
            <<K_template_id, JStr(template_id)>>,
            <<K_design \o <<"_", "j", "s", "o", "n">>, design_json>> >>)

\* {"design_id": design_id, "template_id": payload.template_id, "design": payload.design_json}
DesignDocument(design_id, template_id, design_json) ==
    JObj(<< <<K_design_id, JStr(design_id)>>,
            <<K_template_id, JStr(template_id)>>,
            <<K_design, design_json>> >>)

NoBody == JLit(<<>>)

\* {"status": "ok", "design_id": design_id}
SaveResponse(design_id) ==
    [status |-> 200,
     body |-> JObj(<< <<K_status, JStr(<<"o", "k">>)>>, <<K_design_id, JStr(design_id)>> >>)]

\* {"status": "ok", "file": fname}
ExportResponse(fname) ==
    [status |-> 200,
     body |-> JObj(<< <<K_status, JStr(<<"o", "k">>)>>, <<K_file, JStr(fname)>> >>)]

\* HTTPException(status_code=404, detail="Design not found")
NotFound ==
    [status |-> 404,
     body |-> JObj(<< <<K_detail, JStr(<<"D", "e", "s", "i", "g", "n", " ", "n", "o", "t",
                                         " ", "f", "o", "u", "n", "d">>)>> >>)]

\* an exception that leaves the handler
ServerError == [status |-> 500, body |-> NoBody]

\* get_design without its os.path.exists test: open raises on a missing file
GetDesignUnchecked(dir, design_id) ==
    LET path == DesignPath(design_id) IN
    IF path \notin DOMAIN dir THEN ServerError
    ELSE LET r == JsonLoads(dir[path]) IN
         IF r.ok THEN [status |-> 200, body |-> r.v] ELSE ServerError

\* get_design on the directory dir: the response
GetDesign(dir, design_id) ==
    LET path == DesignPath(design_id) IN
    IF path \notin DOMAIN dir THEN NotFound
    ELSE LET r == JsonLoads(dir[path]) IN
         IF r.ok THEN [status |-> 200, body |-> r.v] ELSE ServerError

\* the payload decoded as it came, header included
DataUriKeep(image_b64) == [ok |-> TRUE, b64 |-> image_b64]

\* image_b64.startswith("data:") ... split(",", 1): [ok, b64]
StripDataUri(image_b64) ==
    IF StartsWith(image_b64, <<"d", "a", "t", "a", ":">>)
    THEN IF Find(image_b64, ",") = 0
         THEN [ok |-> FALSE, b64 |-> <<>>]
         ELSE [ok |-> TRUE,
               b64 |-> SubSeq(image_b64, Find(image_b64, ",") + 1, Len(image_b64))]
    ELSE [ok |-> TRUE, b64 |-> image_b64]

\* the bytes export_image decodes from image_b64: [ok, data]
ExportData(image_b64) ==
    LET s == StripDataUri(image_b64) IN
    IF s.ok THEN b64decode(s.b64) ELSE [ok |-> FALSE, data |-> <<>>]

(***************************************************************************)
(* The requests the clients send.                                          *)
(***************************************************************************)
d1 == <<"d", "1">>
EmptyId == <<>>
d1_json == DesignPath(d1)
x_png == <<"x", ".", "p", "n", "g">>
DataPrefix ==
    <<"d", "a", "t", "a", ":", "i", "m", "a", "g", "e", "/", "p", "n", "g", ";",
      "b", "a", "s", "e", "6", "4", ",">>

\* <<template_id, design_json>>
Payloads ==
    { << <<"a", ".", "j", "p", "g">>, JObj(<<>>) >>,
      << <<"b", ".", "p", "n", "g">>,
         JObj(<< <<<<"t", "e", "x", "t">>, JStr(<<"H", "i", " ", "\"", "x", "\\">>)>>,
                 <<<<"b", "o", "x">>, JObj(<< <<<<"w">>, JNum(<<"8", "0">>)>> >>)>> >>) >> }

Request(op, design_id, payload, image_b64, filename) ==
    [op |-> op, design_id |-> design_id,
     template_id |-> payload[1], design_json |-> payload[2],
     image_b64 |-> image_b64, filename |-> filename,
     pc |-> "received", path |-> <<>>, buf |-> <<>>,
     resp |-> [status |-> 0, body |-> NoBody], seq |-> 0]

NoPayload == << <<>>, NoBody >>

SaveRequests ==
    { Request("save", id, pl, <<>>, None) :
        id \in {None, Some(EmptyId), Some(d1)}, pl \in Payloads }

GetRequests ==
    { Request("get", Some(id), NoPayload, <<>>, None) :
        id \in {d1, EmptyId} \cup {GeneratedDesignId(h) : h \in UuidHex} }

ExportRequests ==
    { Request("export", None, NoPayload, b64, fn) :
        b64 \in { DataPrefix \o b64encode(<<255>>),
                  b64encode(<<123, 125>>),
                  <<"d", "a", "t", "a", ":", "A">> },
        fn \in {None, Some(d1_json)} }

(***************************************************************************)
(* The handlers.  Each is an async def without an await, so the event loop *)
(* runs one handler from its first statement to its return before it       *)
(* starts another: a handler starts only when the loop is idle.            *)
(***************************************************************************)
\* handlers declared def run on worker threads, whenever they are ready
LoopAlways == TRUE

LoopIdle == loop = 0

Receive(r, limit) ==
    /\ Len(reqs) < limit
    /\ reqs' = Append(reqs, r)
    /\ UNCHANGED <<designs_dir, loop, clock>>
    /\ UNCHANGED <<templateVars, resizeVars>>

Return(i, resp) ==
    /\ reqs' = [reqs EXCEPT ![i].pc = "done", ![i].resp = resp, ![i].seq = clock + 1]
    /\ clock' = clock + 1
    /\ loop' = 0

\* save_design up to json.dump: the identifier, open(path, "w"), the document buffered
save_design_open(i) ==
    /\ i \in 1..Len(reqs)
    /\ reqs[i].op = "save" /\ reqs[i].pc = "received"
    /\ LoopIdle
    /\ \E hex \in UuidHex :
         LET design_id == PyOr(reqs[i].design_id, GeneratedDesignId(hex))
             path == DesignPath(design_id)
             doc == DesignDocument(design_id, reqs[i].template_id, reqs[i].design_json)
         IN  /\ designs_dir' = OpenW(designs_dir, path)
             /\ reqs' = [reqs EXCEPT ![i].pc = "open", ![i].path = path,
                                     ![i].buf = Utf8Encode(JsonDumps(doc))]
    /\ loop' = i
    /\ UNCHANGED clock
    /\ UNCHANGED <<templateVars, resizeVars>>

\* save_design from the end of the with block to the return
save_design_close(i) ==
    /\ i \in 1..Len(reqs)
    /\ reqs[i].op = "save" /\ reqs[i].pc = "open"
    /\ designs_dir' = Close(designs_dir, reqs[i].path, reqs[i].buf)
    /\ Return(i, SaveResponse(SubSeq(reqs[i].path, 1, Len(reqs[i].path) - 5)))
    /\ UNCHANGED <<templateVars, resizeVars>>

get_design(i) ==
    /\ i \in 1..Len(reqs)
    /\ reqs[i].op = "get" /\ reqs[i].pc = "received"
    /\ LoopIdle
    /\ Return(i, GetDesign(designs_dir, reqs[i].design_id.v))
    /\ UNCHANGED designs_dir
    /\ UNCHANGED <<templateVars, resizeVars>>

\* export_image up to open(path, "wb"), or to the exception that ends it
export_image_open(i) ==
    /\ i \in 1..Len(reqs)
    /\ reqs[i].op = "export" /\ reqs[i].pc = "received"
    /\ LoopIdle
    /\ LET d == ExportData(reqs[i].image_b64) IN
       IF d.ok
       THEN /\ \E hex \in UuidHex :
                 LET fname == PyOr(reqs[i].filename, GeneratedExportName(hex)) IN
                 /\ designs_dir' = OpenW(designs_dir, fname)
                 /\ reqs' = [reqs EXCEPT ![i].pc = "open", ![i].path = fname,
                                         ![i].buf = d.data]
            /\ loop' = i
            /\ UNCHANGED clock
       ELSE /\ Return(i, ServerError)
            /\ UNCHANGED designs_dir
    /\ UNCHANGED <<templateVars, resizeVars>>

\* export_image from f.write(data) to the return
export_image_close(i) ==
    /\ i \in 1..Len(reqs)
    /\ reqs[i].op = "export" /\ reqs[i].pc = "open"
    /\ designs_dir' = Close(designs_dir, reqs[i].path, reqs[i].buf)
    /\ Return(i, ExportResponse(reqs[i].path))
    /\ UNCHANGED <<templateVars, resizeVars>>

StoreInit ==
    /\ designs_dir = <<>>
    /\ reqs = <<>>
    /\ loop = 0
    /\ clock = 0

IdleTemplates ==
    /\ templates_images = <<>>
    /\ previews_dir = <<>>
    /\ image_files = <<>>
    /\ pos = 0
    /\ ppc = "start"
    /\ template_list = [rendered |-> FALSE, templates |-> <<>>]

IdleResize ==
    /\ img_size = <<1, 1>>
    /\ preview = [state |-> "none", size |-> <<>>]

Init == StoreInit /\ IdleTemplates /\ IdleResize

Next ==
    \/ \E r \in SaveRequests : Receive(r, MaxRequests)
    \/ \E r \in GetRequests : Receive(r, MaxRequests)
    \/ \E r \in ExportRequests : Receive(r, MaxRequests)
    \/ \E i \in 1..MaxRequests : save_design_open(i)
    \/ \E i \in 1..MaxRequests : save_design_close(i)
    \/ \E i \in 1..MaxRequests : get_design(i)
    \/ \E i \in 1..MaxRequests : export_image_open(i)
    \/ \E i \in 1..MaxRequests : export_image_close(i)

Spec == Init /\ [][Next]_vars

(***************************************************************************)
(* Concurrent saves of one identifier: up to MaxSaves requests in flight   *)
(* at once, each a save of d1 or a get of d1, handled in any order.        *)
(***************************************************************************)
SavesOfD1 == { r \in SaveRequests : r.design_id = Some(d1) }
GetsOfD1 == { r \in GetRequests : r.design_id = Some(d1) }

NextSaves ==
    \/ \E r \in SavesOfD1 : Receive(r, MaxSaves)
    \/ \E r \in GetsOfD1 : Receive(r, MaxSaves)
    \/ \E i \in 1..MaxSaves : save_design_open(i)
    \/ \E i \in 1..MaxSaves : save_design_close(i)
    \/ \E i \in 1..MaxSaves : get_design(i)

SpecSaves == Init /\ [][NextSaves]_vars

(***************************************************************************)
(* One export of any byte string of the sample, as a data URI or as bare   *)
(* base64, into a directory that may already hold an export x.png.         *)
(***************************************************************************)
ByteSample == {0, 65, 255}

ExportBytes == UNION { [1..n -> ByteSample] : n \in 0..MaxBytesLen }

OldExport == <<137, 80, 78, 71, 13, 10, 26, 10>>

AnyExportRequests ==
    { Request("export", None, NoPayload, b64, fn) :
        b64 \in {DataPrefix \o b64encode(B) : B \in ExportBytes}
                \cup {b64encode(B) : B \in ExportBytes},
        fn \in {None, Some(EmptyId), Some(x_png)} }

InitExport ==
    /\ designs_dir \in {<<>>, (x_png :> OldExport)}
    /\ reqs = <<>>
    /\ loop = 0
    /\ clock = 0
    /\ IdleTemplates /\ IdleResize

NextExport ==
    \/ \E r \in AnyExportRequests : Receive(r, 1)
    \/ export_image_open(1)
    \/ export_image_close(1)

SpecExport == InitExport /\ [][NextExport]_vars

(***************************************************************************)
(* Claims about the design store.                                          *)
(***************************************************************************)
\* no handler is between its open and its close
Quiescent == \A i \in 1..Len(reqs) : reqs[i].pc \in {"received", "done"}

\* request i is the handler that returned last, and it answered 200
JustReturned(i, op) ==
    /\ Quiescent
    /\ reqs[i].op = op /\ reqs[i].pc = "done"
    /\ reqs[i].seq = clock
    /\ reqs[i].resp.status = 200

ReturnedId(i) == Field(reqs[i].resp.body, K_design_id).s

IsDesignDocument(doc) ==
    HasKey(doc, K_design_id) /\ HasKey(doc, K_template_id) /\ HasKey(doc, K_design)

\* C1: a save with no design_id supplied, followed by get on the identifier it
\* returned, yields a document whose design, template_id and design_id fields are
\* the saved design_json, the saved template_id and the returned identifier.
C1_SaveThenGet ==
    \A i \in 1..Len(reqs) :
        (JustReturned(i, "save") /\ ~reqs[i].design_id.some) =>
            LET got == GetDesign(designs_dir, ReturnedId(i)) IN
            /\ got.status = 200
            /\ IsDesignDocument(got.body)
            /\ Field(got.body, K_design) = reqs[i].design_json
            /\ Field(got.body, K_template_id) = JStr(reqs[i].template_id)
            /\ Field(got.body, K_design_id) = JStr(ReturnedId(i))

\* a generated identifier was saved and then fetched by a get request
C1_Witness ==
    \E i, g \in 1..Len(reqs) :
        /\ reqs[i].op = "save" /\ reqs[i].pc = "done" /\ ~reqs[i].design_id.some
        /\ reqs[i].design_json # JObj(<<>>)
        /\ reqs[g].op = "get" /\ reqs[g].pc = "done" /\ reqs[g].seq > reqs[i].seq
        /\ reqs[g].design_id.v = ReturnedId(i)
        /\ reqs[g].resp.status = 200
        /\ Field(reqs[g].resp.body, K_design) = reqs[i].design_json

\* save j, then save i, both answered, with the same supplied design_id
SavedTwice(j, i) ==
    /\ JustReturned(i, "save")
    /\ reqs[j].op = "save" /\ reqs[j].pc = "done" /\ reqs[j].resp.status = 200
    /\ reqs[j].seq < reqs[i].seq
    /\ reqs[i].design_id.some
    /\ reqs[j].design_id = reqs[i].design_id

OnlySecondPayload(j, i) ==
    /\ GetDesign(designs_dir, reqs[i].design_id.v) =
         [status |-> 200,
          body |-> DesignDocument(reqs[i].design_id.v, reqs[i].template_id,
                                  reqs[i].design_json)]
    /\ reqs[j].path = reqs[i].path
    /\ reqs[i].path = DesignPath(reqs[i].design_id.v)

\* C2 as stated: for every explicit design_id, after save(design_id, P1) and
\* save(design_id, P2), get(design_id) returns the document built from P2 only, and
\* both saves wrote the one file of that identifier.
C2_AsStated ==
    \A j, i \in 1..Len(reqs) : SavedTwice(j, i) => OnlySecondPayload(j, i)

\* C2 amended: the same for every explicit design_id that is not the empty string
\* (an empty design_id is treated as not supplied).
C2_Overwrite ==
    \A j, i \in 1..Len(reqs) :
        (SavedTwice(j, i) /\ reqs[i].design_id.v # <<>>) => OnlySecondPayload(j, i)

\* d1 was saved with the long payload and then with the short one
C2_Witness ==
    \E j, i \in 1..Len(reqs) :
        /\ SavedTwice(j, i)
        /\ reqs[i].design_id.v = d1
        /\ Len(reqs[j].buf) > Len(reqs[i].buf)
        /\ OnlySecondPayload(j, i)

\* C3: get on an identifier with no design file answers 404, and the handler
\* creates or changes no file.
C3_NotFound ==
    [][\A i \in 1..Len(reqs) :
         (/\ reqs[i].op = "get" /\ reqs[i].pc = "received" /\ reqs'[i].pc = "done"
          /\ DesignPath(reqs[i].design_id.v) \notin DOMAIN designs_dir)
         => (reqs'[i].resp = NotFound /\ designs_dir' = designs_dir)]_vars

\* a get of a missing identifier was answered while the directory held other files
C3_Witness ==
    \E i \in 1..Len(reqs) :
        /\ reqs[i].op = "get" /\ reqs[i].pc = "done"
        /\ reqs[i].resp.status = 404
        /\ DOMAIN designs_dir # {}
        /\ DesignPath(reqs[i].design_id.v) \notin DOMAIN designs_dir

\* C4: whenever no handler is running, every file <design_id>.json of the designs
\* directory parses as a JSON document {design_id, template_id, design}.
C4_DesignFilesValid ==
    Quiescent =>
        \A p \in DOMAIN designs_dir :
            EndsWith(p, <<".", "j", "s", "o", "n">>) =>
                /\ JsonLoads(designs_dir[p]).ok
                /\ IsDesignDocument(JsonLoads(designs_dir[p]).v)

\* the identifiers the completed saves returned
SavedIds ==
    { ReturnedId(i) : i \in { k \in 1..Len(reqs) : reqs[k].op = "save" /\ reqs[k].pc = "done" } }

\* C10: no step of an export request changes what get returns for a saved design.
C10_ExportKeepsDesigns ==
    [][\A i \in 1..Len(reqs) :
         (reqs[i].op = "export" /\ reqs'[i] # reqs[i]) =>
             \A id \in SavedIds : GetDesign(designs_dir', id) = GetDesign(designs_dir, id)]_vars

\* C8: once every save of an identifier that was in flight has returned, get on it
\* returns the complete document of the save that wrote last.
C8_LastWriteWins ==
    \A i \in 1..Len(reqs) :
        (/\ reqs[i].op = "save" /\ reqs[i].pc = "done"
         /\ \A k \in 1..Len(reqs) :
              reqs[k].op = "save" => (reqs[k].pc = "done" /\ reqs[k].seq <= reqs[i].seq))
        => GetDesign(designs_dir, d1) =
             [status |-> 200,
              body |-> DesignDocument(d1, reqs[i].template_id, reqs[i].design_json)]

\* all the saves were in flight together, and the last to write was the short one
C8_Witness ==
    /\ Len(reqs) = MaxSaves
    /\ \A k \in 1..Len(reqs) : reqs[k].op = "save" /\ reqs[k].pc = "done"
    /\ \E i, j \in 1..Len(reqs) :
         /\ reqs[i].seq = clock /\ reqs[j].seq = 1 /\ i < j
         /\ Len(reqs[i].buf) < Len(reqs[j].buf)
    /\ GetDesign(designs_dir, d1).status = 200

\* C6: an export of "data:image/png;base64," + base64(B) answers with the name of a
\* file (the supplied filename, or a generated one) whose content is exactly B.
C6_ExportRoundTrip ==
    \A i \in 1..Len(reqs) :
        \A B \in ExportBytes :
            (/\ reqs[i].op = "export" /\ reqs[i].pc = "done" /\ reqs[i].seq = clock
             /\ Quiescent
             /\ reqs[i].image_b64 = DataPrefix \o b64encode(B))
            => /\ reqs[i].resp.status = 200
               /\ LET file == Field(reqs[i].resp.body, K_file).s IN
                  /\ file \in DOMAIN designs_dir
                  /\ designs_dir[file] = B
                  /\ file \in {PyOr(reqs[i].filename, GeneratedExportName(h)) : h \in UuidHex}

\* a data URI of MaxBytesLen bytes replaced the longer export x.png
C6_Witness ==
    \E i \in 1..Len(reqs) :
        /\ reqs[i].op = "export" /\ reqs[i].pc = "done"
        /\ reqs[i].filename = Some(x_png)
        /\ StartsWith(reqs[i].image_b64, DataPrefix)
        /\ Len(designs_dir[x_png]) = MaxBytesLen
        /\ 255 \in {designs_dir[x_png][n] : n \in 1..MaxBytesLen}

(***************************************************************************)
(* IEEE 754 double arithmetic, as far as the preview height needs it.  A   *)
(* positive double is [m, e]: m its 53 significand bits, most significant  *)
(* first, and e the exponent of the last of them, so that its value is     *)
(* m * 2^e.  Results are rounded to nearest, ties to even.  The long       *)
(* division and the product work on 18-bit limbs (2^18 = 262144), which    *)
(* keeps every intermediate below 2^31 for divisors below 2^13 and         *)
(* multipliers below 2^12.                                                 *)
(***************************************************************************)
\* the binary digits of n, 0 <= n < 2^30
Bits(n) ==
    LET len == CHOOSE l \in 0..30 : n < 2 ^ l /\ (l = 0 \/ n >= 2 ^ (l - 1))
    IN  [i \in 1..len |-> (n \div 2 ^ (len - i)) % 2]

\* the 18 binary digits of a limb
LimbBits(n) == [i \in 1..18 |-> (n \div 2 ^ (18 - i)) % 2]

BitsValue(bits) ==
    LET value[i \in 0..Len(bits)] == IF i = 0 THEN 0 ELSE 2 * value[i - 1] + bits[i]
    IN  value[Len(bits)]

\* bits + 1 (one digit longer when every bit is 1)
IncBits(bits) ==
    LET zeros == {i \in 1..Len(bits) : bits[i] = 0} IN
    IF zeros = {} THEN <<1>> \o [i \in 1..Len(bits) |-> 0]
    ELSE LET p == CHOOSE i \in zeros : \A j \in zeros : j <= i IN
         [i \in 1..Len(bits) |-> IF i < p THEN bits[i] ELSE IF i = p THEN 1 ELSE 0]

\* the first 72 bits of the fraction r/d (0 <= r < d) and the remainder left
FracBits(r, d) ==
    LET q1 == (r * 262144) \div d
        r1 == (r * 262144) % d
        q2 == (r1 * 262144) \div d
        r2 == (r1 * 262144) % d
        q3 == (r2 * 262144) \div d
        r3 == (r2 * 262144) % d
        q4 == (r3 * 262144) \div d
        r4 == (r3 * 262144) % d
    IN  [bits |-> LimbBits(q1) \o LimbBits(q2) \o LimbBits(q3) \o LimbBits(q4),
         rem |-> r4]

\* the 53-bit significand m times h, exactly
MulBits(m, h) ==
    LET p3 == BitsValue(SubSeq(m, 36, 53)) * h
        p2 == BitsValue(SubSeq(m, 18, 35)) * h + p3 \div 262144
        p1 == BitsValue(SubSeq(m, 1, 17)) * h + p2 \div 262144
    IN  Bits(p1) \o LimbBits(p2 % 262144) \o LimbBits(p3 % 262144)

\* bits (at least 53, the first a 1, the last of exponent e) and what lies below
\* them, rounded to 53 bits
RoundDouble(bits, sticky, e) ==
    LET t == Len(bits) - 53
        m == SubSeq(bits, 1, 53)
        guard == IF t >= 1 THEN bits[54] ELSE 0
        below == sticky \/ \E j \in 55..Len(bits) : bits[j] = 1
        up == guard = 1 /\ (below \/ m[53] = 1)
        inc == IncBits(m)
    IN  IF ~up THEN [m |-> m, e |-> e + t]
        ELSE IF Len(inc) = 53 THEN [m |-> inc, e |-> e + t]
        ELSE [m |-> SubSeq(inc, 1, 53), e |-> e + t + 1]

\* n / d for integers n, d >= 1 (int / int is correctly rounded)
DivDouble(n, d) ==
    LET lead == Bits(n \div d)
        f == FracBits(n % d, d)
    IN  IF Len(lead) > 0
        THEN RoundDouble(lead \o f.bits, f.rem # 0, 0 - 72)
        ELSE RoundDouble(SubSeq(f.bits, Find(f.bits, 1), 72), f.rem # 0, 0 - 72)

\* h * x for an integer h >= 1 and a double x
MulDouble(h, x) == RoundDouble(MulBits(x.m, h), FALSE, x.e)

\* int(x): truncation
IntOfDouble(x) ==
    IF 53 + x.e <= 0 THEN 0 ELSE BitsValue(SubSeq(x.m, 1, 53 + x.e))

preview_width == 300

\* round(num / den), as Python rounds: to nearest, ties to even
RoundHalfEven(num, den) ==
    LET q == num \div den
        r == num % den
    IN  IF 2 * r > den \/ (2 * r = den /\ q % 2 = 1) THEN q + 1 ELSE q

\* the height rounded to the nearest integer
PreviewHeightRounded(width, height) == RoundHalfEven(height * preview_width, width)

\* int(height * (preview_width / width))
PreviewHeight(width, height) ==
    IntOfDouble(MulDouble(height, DivDouble(preview_width, width)))

(***************************************************************************)
(* Template images.  A file of TEMPLATE_IMAGES_DIR is [name, readable,     *)
(* size, mode]: readable says whether Image.open succeeds, size is the     *)
(* <<width, height>> it then reports and mode its pixel format.            *)
(***************************************************************************)
\* img.resize((preview_width, preview_height), Image.LANCZOS): [ok, size];
\* PIL raises ValueError for a height below 1
ResizePreview(size) ==
    LET preview_height == PreviewHeight(size[1], size[2]) IN
    IF preview_height < 1 THEN [ok |-> FALSE, size |-> <<>>]
    ELSE [ok |-> TRUE, size |-> <<preview_width, preview_height>>]

TemplateLimit == 8

\* the list as it comes, with no limit
TakeAll(files) == files

\* image_files[:8]
FirstN(files) ==
    SubSeq(files, 1, IF Len(files) < TemplateLimit THEN Len(files) ELSE TemplateLimit)

\* glob's "*.ext" on one directory: the names that end in .ext and are not hidden
Matches(name, ext) == EndsWith(name, <<".">> \o ext) /\ name[1] # "."

SelectNames(listing, ext) ==
    LET matching == SelectSeq(listing, LAMBDA f : Matches(f.name, ext))
    IN  [i \in 1..Len(matching) |-> matching[i].name]

\* glob("*.jpg") + glob("*.jpeg") + glob("*.png"), each in directory order
GlobImages(listing) ==
    SelectNames(listing, <<"j", "p", "g">>)
    \o SelectNames(listing, <<"j", "p", "e", "g">>)
    \o SelectNames(listing, <<"p", "n", "g">>)

FileNamed(listing, name) ==
    listing[CHOOSE i \in 1..Len(listing) : listing[i].name = name]

\* f"preview_{filename.split('.')[0]}.jpg"
PreviewFilename(filename) ==
    LET dot == Find(filename, ".")
        stem == IF dot = 0 THEN filename ELSE SubSeq(filename, 1, dot - 1)
    IN  <<"p", "r", "e", "v", "i", "e", "w", "_">> \o stem \o <<".", "j", "p", "g">>

\* preview.save(preview_path, "JPEG", quality=85) raises OSError for a mode the
\* JPEG encoder cannot write, such as a PNG's RGBA or P
JpegModes == {"1", "L", "RGB", "RGBX", "CMYK", "YCbCr"}

\* the body of the try block for one image: [ok, name, size]
MakePreview(file) ==
    IF ~file.readable THEN [ok |-> FALSE, name |-> <<>>, size |-> <<>>]
    ELSE LET r == ResizePreview(file.size) IN
         IF r.ok /\ file.mode \in JpegModes
         THEN [ok |-> TRUE, name |-> PreviewFilename(file.name), size |-> r.size]
         ELSE [ok |-> FALSE, name |-> <<>>, size |-> <<>>]

\* the exception leaves create_template_previews
OnImageErrorRaise == "crashed"

\* except Exception as e: print(...), and the loop goes on
OnImageError == "loop"

\* one entry of template_list (its name and image_url are left out)
TemplateEntry(file) ==
    [id |-> file.name,
     width |-> IF file.readable THEN file.size[1] ELSE 880,
     height |-> IF file.readable THEN file.size[2] ELSE 1020,
     preview_url |-> <<"/", "p", "r", "e", "v", "i", "e", "w", "s", "/">>
                     \o PreviewFilename(file.name)]

TemplateList(listing) ==
    LET names == FirstN(GlobImages(listing))
    IN  [i \in 1..Len(names) |-> TemplateEntry(FileNamed(listing, names[i]))]

\* create_template_previews: the glob and the limit
glob_templates ==
    /\ ppc = "start"
    /\ image_files' = FirstN(GlobImages(templates_images))
    /\ pos' = 1
    /\ ppc' = "loop"
    /\ UNCHANGED <<templates_images, previews_dir, template_list>>
    /\ UNCHANGED <<storeVars, resizeVars>>

\* create_template_previews: one iteration of the for loop
preview_image ==
    /\ ppc = "loop"
    /\ pos <= Len(image_files)
    /\ LET made == MakePreview(FileNamed(templates_images, image_files[pos])) IN
       IF made.ok
       THEN /\ previews_dir' =
                 [n \in DOMAIN previews_dir \cup {made.name} |->
                     IF n = made.name
                     THEN [src |-> image_files[pos], size |-> made.size]
                     ELSE previews_dir[n]]
            /\ ppc' = "loop"
       ELSE /\ UNCHANGED previews_dir
            /\ ppc' = OnImageError
    /\ pos' = pos + 1
    /\ UNCHANGED <<templates_images, image_files, template_list>>
    /\ UNCHANGED <<storeVars, resizeVars>>

\* create_template_previews: the for loop is exhausted and the function returns
previews_done ==
    /\ ppc = "loop"
    /\ pos > Len(image_files)
    /\ ppc' = "done"
    /\ UNCHANGED <<templates_images, previews_dir, image_files, pos, template_list>>
    /\ UNCHANGED <<storeVars, resizeVars>>

\* GET /, served once the module has been imported
index ==
    /\ ppc = "done"
    /\ template_list' = [rendered |-> TRUE, templates |-> TemplateList(templates_images)]
    /\ UNCHANGED <<templates_images, previews_dir, image_files, pos, ppc>>
    /\ UNCHANGED <<storeVars, resizeVars>>

File(name, readable, size, mode) ==
    [name |-> name, readable |-> readable, size |-> size, mode |-> mode]

\* the files a template directory is made of
TemplatePool ==
    << File(<<"a", ".", "j", "p", "g">>, TRUE, <<600, 400>>, "RGB"),
       File(<<"b", ".", "j", "p", "g">>, FALSE, <<0, 0>>, "RGB"),
       File(<<"c", ".", "j", "p", "g">>, TRUE, <<7, 21>>, "RGB"),
       File(<<"d", ".", "j", "p", "g">>, TRUE, <<1000, 3>>, "RGB"),
       File(<<"L", ".", "J", "P", "G">>, TRUE, <<300, 300>>, "RGB"),
       File(<<"e", ".", "j", "p", "e", "g">>, TRUE, <<300, 300>>, "L"),
       File(<<"f", ".", "j", "p", "e", "g">>, FALSE, <<0, 0>>, "RGB"),
       File(<<".", "k", ".", "j", "p", "g">>, TRUE, <<640, 480>>, "RGB"),
       File(<<"a", ".", "p", "n", "g">>, TRUE, <<880, 1020>>, "RGB"),
       File(<<"g", ".", "v", "2", ".", "p", "n", "g">>, TRUE, <<8, 1>>, "RGB"),
       File(<<"h", "_", "i", ".", "p", "n", "g">>, TRUE, <<1080, 1350>>, "RGBA") >>

Reverse(seq) == [i \in 1..Len(seq) |-> seq[Len(seq) + 1 - i]]

\* the files of seq at the positions keep, in the order of seq
Pick(seq, keep) == SelectSeq(seq, LAMBDA f : \E i \in keep : seq[i] = f)

\* the directory holds any of the files, listed in pool order or in reverse
InitTemplates ==
    /\ \E keep \in SUBSET (1..Len(TemplatePool)) :
         templates_images \in {Pick(TemplatePool, keep), Reverse(Pick(TemplatePool, keep))}
    /\ previews_dir = <<>>
    /\ image_files = <<>>
    /\ pos = 0
    /\ ppc = "start"
    /\ template_list = [rendered |-> FALSE, templates |-> <<>>]
    /\ StoreInit /\ IdleResize

NextStartup == glob_templates \/ preview_image \/ previews_done

NextTemplates ==
    \/ glob_templates
    \/ preview_image
    \/ previews_done
    \/ index

SpecTemplates == InitTemplates /\ [][NextTemplates]_vars

(***************************************************************************)
(* One image resized, its size drawn from the sizes up to MaxWidth by      *)
(* MaxHeight and a few larger ones.                                        *)
(***************************************************************************)
ImageSizes ==
    ((1..MaxWidth) \X (1..MaxHeight))
    \cup {<<1000, 3>>, <<301, 1>>, <<600, 1>>, <<880, 1020>>, <<1080, 1350>>, <<49, 49>>}

resize_image ==
    /\ preview.state = "none"
    /\ LET r == ResizePreview(img_size) IN
       preview' = [state |-> IF r.ok THEN "made" ELSE "error", size |-> r.size]
    /\ UNCHANGED img_size
    /\ UNCHANGED <<storeVars, templateVars>>

InitResize ==
    /\ img_size \in ImageSizes
    /\ preview = [state |-> "none", size |-> <<>>]
    /\ StoreInit /\ IdleTemplates

NextResize ==
    \/ resize_image

SpecResize == InitResize /\ [][NextResize]_vars

(***************************************************************************)
(* Claims about the templates and their previews.                          *)
(***************************************************************************)
Min(a, b) == IF a < b THEN a ELSE b

ImageExtensions == {<<"j", "p", "g">>, <<"j", "p", "e", "g">>, <<"p", "n", "g">>}

\* the positions of the directory listing that glob enumerates
Enumerated ==
    { i \in 1..Len(templates_images) :
        \E ext \in ImageExtensions : Matches(templates_images[i].name, ext) }

\* ... and those of them that hold a readable image
ValidImages == { i \in Enumerated : templates_images[i].readable }

\* C5 as stated: the template list has exactly min(n, 8) entries, n the number of
\* valid jpg/jpeg/png images of the directory.
C5_AsStated ==
    template_list.rendered =>
        Len(template_list.templates) = Min(Cardinality(ValidImages), TemplateLimit)

\* C5 amended: the template list has exactly min(n, 8) entries, n the number of
\* files the three patterns enumerate, readable or not: the first 8 of the
\* enumeration, and never more than 8.
C5_ListLimit ==
    template_list.rendered =>
        LET list == template_list.templates
            files == GlobImages(templates_images)
        IN  /\ Len(list) = Min(Cardinality(Enumerated), TemplateLimit)
            /\ Len(list) <= TemplateLimit
            /\ \A i \in 1..Len(list) : list[i].id = files[i]

\* nine files are enumerated, an unreadable one among the eight that are listed
C5_Witness ==
    /\ template_list.rendered
    /\ Cardinality(Enumerated) > TemplateLimit
    /\ Len(template_list.templates) = TemplateLimit
    /\ \E i \in 1..TemplateLimit :
         /\ ~FileNamed(templates_images, template_list.templates[i].id).readable
         /\ template_list.templates[i].width = 880

\* C7 as stated: the preview of a W by H image is 300 wide and round(H * 300 / W) high.
C7_AsStated ==
    preview.state = "made" =>
        preview.size = <<300, RoundHalfEven(img_size[2] * 300, img_size[1])>>

\* C7 amended: the preview, when one is made, is 300 wide and its height is
\* H * 300 / W truncated, or one less when H * 300 / W is whole.
C7_Truncated ==
    preview.state = "made" =>
        LET q == (img_size[2] * 300) \div img_size[1]
            r == (img_size[2] * 300) % img_size[1]
            h == preview.size[2]
        IN  /\ preview.size[1] = 300
            /\ h >= 1
            /\ h = q \/ (h = q - 1 /\ r = 0)

\* 1 * 300 / 7 = 42.86 gave 42, and 21 * 300 / 7 = 900 gave 899
C7_Witness ==
    \/ img_size = <<7, 1>> /\ preview = [state |-> "made", size |-> <<300, 42>>]
    \/ img_size = <<7, 21>> /\ preview = [state |-> "made", size |-> <<300, 899>>]

\* the enumerated image can be opened and resized
Processable(name) == MakePreview(FileNamed(templates_images, name)).ok

====
